---- MODULE Spec2Model ----
(***************************************************************************)
(* A model of xlsx.go: the Xlsx writer that binds struct records to sheet  *)
(* rows, with or without a template workbook.                              *)
(*                                                                         *)
(* Representation.                                                         *)
(*   - A string is a sequence of one-character strings, so that            *)
(*     strings.Contains is real substring containment.                     *)
(*   - A sheet is the sequence of its rows (SheetData.Row).  Rows are      *)
(*     numbered densely: the row at 0-based index i carries row number     *)
(*     i + 1, which is what the comment at xlsx.go:323 relies on.          *)
(*   - A row is [cells, unref]: cells[c] is the cell in column c, and the  *)
(*     row has a cell in every column up to its last one; Row.Cell(col)    *)
(*     on a column past the last one adds the cell, empty.  unref holds    *)
(*     the texts of the cells of the row that carry no resolvable          *)
(*     reference, the ones for which Cell.Column() returns an error.       *)
(*   - time.Time.Format is that of Go 1.17 and later.                      *)
(*   - A []spreadsheet.Row of row pointers is a sequence of 0-based row    *)
(*     indices into the sheet.                                             *)
(***************************************************************************)
EXTENDS Integers, Sequences, FiniteSets, TLC

\* ------------------------------------------------------------------ bounds
\* most rows of a template sheet a Write behaviour starts from
MaxRows == 3
\* most rows of a sheet handed to the template locator on its own
MaxLocRows == 4
\* most records of one Write call
MaxRecords == 4
\* most Write calls on one Xlsx instance
MaxCalls == 2

\* ----------------------------------------------------------------- strings
\* strings.Contains(s, sub)
Contains(s, sub) ==
  \E i \in 0..(Len(s) - Len(sub)) : SubSeq(s, i + 1, i + Len(sub)) = sub

Digit(d) ==
  CASE d = 0 -> "0" [] d = 1 -> "1" [] d = 2 -> "2" [] d = 3 -> "3" [] d = 4 -> "4"
    [] d = 5 -> "5" [] d = 6 -> "6" [] d = 7 -> "7" [] d = 8 -> "8" [] OTHER -> "9"

\* the decimal text of a natural number
RECURSIVE NumStr(_)
NumStr(n) == IF n < 10 THEN <<Digit(n)>> ELSE NumStr(n \div 10) \o <<Digit(n % 10)>>

\* the literal marker of findTemplateRows
TemplateMarker == <<"t", "e", "m", "p", "l", "a", "t", "e">>

\* strings.Replace(s, old, new, -1): every non-overlapping old, left to right
RECURSIVE ReplaceAll(_, _, _)
ReplaceAll(s, old, new) ==
  IF Len(s) < Len(old) THEN s
  ELSE IF SubSeq(s, 1, Len(old)) = old
       THEN new \o ReplaceAll(SubSeq(s, Len(old) + 1, Len(s)), old, new)
       ELSE <<s[1]>> \o ReplaceAll(Tail(s), old, new)

\* ConvertLayout: the Java layout rewritten as a Go layout
ConvertLayout(layout) ==
  LET l1 == ReplaceAll(layout, <<"y", "y", "y", "y">>, <<"2", "0", "0", "6">>)
      l2 == ReplaceAll(l1, <<"y", "y">>, <<"0", "6">>)
      l3 == ReplaceAll(l2, <<"M", "M">>, <<"0", "1">>)
      l4 == ReplaceAll(l3, <<"d", "d">>, <<"0", "2">>)
      l5 == ReplaceAll(l4, <<"H", "H">>, <<"1", "5">>)
      l6 == ReplaceAll(l5, <<"m", "m">>, <<"0", "4">>)
      l7 == ReplaceAll(l6, <<"s", "s">>, <<"0", "5">>)
  IN ReplaceAll(l7, <<"S", "S", "S">>, <<"0", "0", "0">>)

\* the digit loop of appendInt: the decimal text of u >= 0, zero-padded to width
RECURSIVE appendUint(_, _)
appendUint(u, width) ==
  LET s == NumStr(u) IN
  IF Len(s) >= width THEN s ELSE <<"0">> \o appendUint(u, width - 1)

\* appendInt(b, x, width): a minus sign for x < 0, then the digits of |x|
appendInt(x, width) ==
  IF x < 0 THEN <<"-">> \o appendUint(-x, width) ELSE appendUint(x, width)

\* Go's integer division and remainder, which truncate towards zero
Quo(a, b) == IF a < 0 THEN -((-a) \div b) ELSE a \div b

Rem(a, b) == a - b * Quo(a, b)

\* A time is [Y, M, D, h, m, s, ns, zone, off, serial]: the wall clock in its
\* location, the abbreviation of the zone and its offset in seconds east of UTC,
\* and the serial number SetTime stores.
DecimalDigits == {"0", "1", "2", "3", "4", "5", "6", "7", "8", "9"}

LowerCase ==
  {"a", "b", "c", "d", "e", "f", "g", "h", "i", "j", "k", "l", "m", "n", "o", "p", "q",
   "r", "s", "t", "u", "v", "w", "x", "y", "z"}

HasPrefix(s, p) == Len(s) >= Len(p) /\ SubSeq(s, 1, Len(p)) = p

Drop(s, n) == SubSeq(s, n + 1, Len(s))

\* startsWithLowerCase of time/format.go
startsWithLowerCase(s) == s # <<>> /\ s[1] \in LowerCase

\* the number of leading ch of s
RECURSIVE RunLen(_, _)
RunLen(s, ch) == IF s # <<>> /\ s[1] = ch THEN 1 + RunLen(Tail(s), ch) ELSE 0

longMonthNames ==
  << <<"J", "a", "n", "u", "a", "r", "y">>,
     <<"F", "e", "b", "r", "u", "a", "r", "y">>,
     <<"M", "a", "r", "c", "h">>,
     <<"A", "p", "r", "i", "l">>,
     <<"M", "a", "y">>,
     <<"J", "u", "n", "e">>,
     <<"J", "u", "l", "y">>,
     <<"A", "u", "g", "u", "s", "t">>,
     <<"S", "e", "p", "t", "e", "m", "b", "e", "r">>,
     <<"O", "c", "t", "o", "b", "e", "r">>,
     <<"N", "o", "v", "e", "m", "b", "e", "r">>,
     <<"D", "e", "c", "e", "m", "b", "e", "r">> >>

longDayNames ==
  << <<"S", "u", "n", "d", "a", "y">>,
     <<"M", "o", "n", "d", "a", "y">>,
     <<"T", "u", "e", "s", "d", "a", "y">>,
     <<"W", "e", "d", "n", "e", "s", "d", "a", "y">>,
     <<"T", "h", "u", "r", "s", "d", "a", "y">>,
     <<"F", "r", "i", "d", "a", "y">>,
     <<"S", "a", "t", "u", "r", "d", "a", "y">> >>

isLeap(y) == y % 4 = 0 /\ (y % 100 # 0 \/ y % 400 = 0)

\* Time.YearDay: 1 for the first of January
YearDay(t) ==
  <<0, 31, 59, 90, 120, 151, 181, 212, 243, 273, 304, 334>>[t.M] + t.D
    + (IF isLeap(t.Y) /\ t.M > 2 THEN 1 ELSE 0)

\* Time.Weekday: 0 for Sunday; the first of January of year 1 is a Monday
Weekday(t) ==
  LET y == t.Y - 1 IN
  (365 * y + (y \div 4) - (y \div 100) + (y \div 400) + YearDay(t)) % 7

\* A layout chunk [std, n, pre, digits]: its code, the characters of the layout
\* it takes, the literal text it starts with, and for a fraction of a second
\* the number of its digits.  NoStd: the layout does not start with a chunk.
Std(std, n) == [std |-> std, n |-> n, pre |-> <<>>, digits |-> 0]

NoStd == Std("", 0)

\* the cases of nextStdChunk (time/format.go) for a chunk at the head of the
\* layout l, which is not empty
stdChunkAt(l) ==
  LET c == l[1]
      has(p) == HasPrefix(l, p)
  IN CASE c = "J" ->
            IF has(<<"J", "a", "n", "u", "a", "r", "y">>) THEN Std("stdLongMonth", 7)
            ELSE IF has(<<"J", "a", "n">>) /\ ~startsWithLowerCase(Drop(l, 3)) THEN Std("stdMonth", 3)
            ELSE NoStd
       [] c = "M" ->
            IF has(<<"M", "o", "n", "d", "a", "y">>) THEN Std("stdLongWeekDay", 6)
            ELSE IF has(<<"M", "o", "n">>) /\ ~startsWithLowerCase(Drop(l, 3)) THEN Std("stdWeekDay", 3)
            ELSE IF has(<<"M", "S", "T">>) THEN Std("stdTZ", 3)
            ELSE NoStd
       [] c = "0" ->
            IF Len(l) >= 2 /\ l[2] \in {"1", "2", "3", "4", "5", "6"}
            THEN Std(CASE l[2] = "1" -> "stdZeroMonth"
                       [] l[2] = "2" -> "stdZeroDay"
                       [] l[2] = "3" -> "stdZeroHour12"
                       [] l[2] = "4" -> "stdZeroMinute"
                       [] l[2] = "5" -> "stdZeroSecond"
                       [] OTHER -> "stdYear", 2)
            ELSE IF has(<<"0", "0", "2">>) THEN Std("stdZeroYearDay", 3)
            ELSE NoStd
       [] c = "1" -> IF has(<<"1", "5">>) THEN Std("stdHour", 2) ELSE Std("stdNumMonth", 1)
       [] c = "2" -> IF has(<<"2", "0", "0", "6">>) THEN Std("stdLongYear", 4) ELSE Std("stdDay", 1)
       [] c = "_" ->
            IF has(<<"_", "2", "0", "0", "6">>) THEN [Std("stdLongYear", 5) EXCEPT !.pre = <<"_">>]
            ELSE IF has(<<"_", "2">>) THEN Std("stdUnderDay", 2)
            ELSE IF has(<<"_", "_", "2">>) THEN Std("stdUnderYearDay", 3)
            ELSE NoStd
       [] c = "3" -> Std("stdHour12", 1)
       [] c = "4" -> Std("stdMinute", 1)
       [] c = "5" -> Std("stdSecond", 1)
       [] c = "P" -> IF has(<<"P", "M">>) THEN Std("stdPM", 2) ELSE NoStd
       [] c = "p" -> IF has(<<"p", "m">>) THEN Std("stdpm", 2) ELSE NoStd
       [] c = "-" ->
            IF has(<<"-", "0", "7", "0", "0", "0", "0">>) THEN Std("stdNumSecondsTz", 7)
            ELSE IF has(<<"-", "0", "7", ":", "0", "0", ":", "0", "0">>) THEN Std("stdNumColonSecondsTZ", 9)
            ELSE IF has(<<"-", "0", "7", "0", "0">>) THEN Std("stdNumTZ", 5)
            ELSE IF has(<<"-", "0", "7", ":", "0", "0">>) THEN Std("stdNumColonTZ", 6)
            ELSE IF has(<<"-", "0", "7">>) THEN Std("stdNumShortTZ", 3)
            ELSE NoStd
       [] c = "Z" ->
            IF has(<<"Z", "0", "7", "0", "0", "0", "0">>) THEN Std("stdISO8601SecondsTZ", 7)
            ELSE IF has(<<"Z", "0", "7", ":", "0", "0", ":", "0", "0">>) THEN Std("stdISO8601ColonSecondsTZ", 9)
            ELSE IF has(<<"Z", "0", "7", "0", "0">>) THEN Std("stdISO8601TZ", 5)
            ELSE IF has(<<"Z", "0", "7", ":", "0", "0">>) THEN Std("stdISO8601ColonTZ", 6)
            ELSE IF has(<<"Z", "0", "7">>) THEN Std("stdISO8601ShortTZ", 3)
            ELSE NoStd
       [] c \in {".", ","} ->
            IF Len(l) >= 2 /\ l[2] \in {"0", "9"}
            THEN LET run == RunLen(Tail(l), l[2]) IN
                 IF Len(l) >= run + 2 /\ l[run + 2] \in DecimalDigits THEN NoStd
                 ELSE [Std(IF l[2] = "0" THEN "stdFracSecond0" ELSE "stdFracSecond9", run + 1)
                         EXCEPT !.pre = <<c>>, !.digits = run]
            ELSE NoStd
       [] OTHER -> NoStd

\* the text without its trailing zeros
RECURSIVE TrimZeros(_)
TrimZeros(s) == IF s # <<>> /\ s[Len(s)] = "0" THEN TrimZeros(SubSeq(s, 1, Len(s) - 1)) ELSE s

\* appendNano: the fraction of a second, after the separator sep, in n digits;
\* trim drops the trailing zeros, and the separator when nothing follows it
appendNano(nanosec, n, trim, sep) ==
  IF trim /\ (n = 0 \/ nanosec = 0) THEN <<>>
  ELSE LET all == appendInt(nanosec, 9)
           ds == IF n < 9 THEN SubSeq(all, 1, n) ELSE all
       IN IF ~trim THEN sep \o ds
          ELSE IF TrimZeros(ds) = <<>> THEN <<>> ELSE sep \o TrimZeros(ds)

\* the zone offset as the numeric and ISO 8601 chunks print it
appendZone(off, std) ==
  LET iso == std \in {"stdISO8601TZ", "stdISO8601ColonTZ", "stdISO8601SecondsTZ",
                      "stdISO8601ShortTZ", "stdISO8601ColonSecondsTZ"}
      colon == std \in {"stdISO8601ColonTZ", "stdNumColonTZ", "stdISO8601ColonSecondsTZ",
                        "stdNumColonSecondsTZ"}
      short == std \in {"stdNumShortTZ", "stdISO8601ShortTZ"}
      secs == std \in {"stdISO8601SecondsTZ", "stdNumSecondsTz", "stdNumColonSecondsTZ",
                       "stdISO8601ColonSecondsTZ"}
      colonSecs == std \in {"stdNumColonSecondsTZ", "stdISO8601ColonSecondsTZ"}
      neg == Quo(off, 60) < 0
      zone == IF neg THEN -Quo(off, 60) ELSE Quo(off, 60)
      absoffset == IF neg THEN -off ELSE off
  IN IF off = 0 /\ iso THEN <<"Z">>
     ELSE (IF neg THEN <<"-">> ELSE <<"+">>)
          \o appendInt(Quo(zone, 60), 2)
          \o (IF colon THEN <<":">> ELSE <<>>)
          \o (IF short THEN <<>> ELSE appendInt(Rem(zone, 60), 2))
          \o (IF secs
              THEN (IF colonSecs THEN <<":">> ELSE <<>>) \o appendInt(Rem(absoffset, 60), 2)
              ELSE <<>>)

\* the switch of Time.appendFormat: what the chunk ch prints for the time t
appendStd(t, ch) ==
  LET std == ch.std
      hr == IF t.h % 12 = 0 THEN 12 ELSE t.h % 12
      pad(s, w) == [k \in 1..(w - Len(s)) |-> " "] \o s
  IN CASE std = "stdYear" -> appendInt(Rem(IF t.Y < 0 THEN -t.Y ELSE t.Y, 100), 2)
       [] std = "stdLongYear" -> appendInt(t.Y, 4)
       [] std = "stdMonth" -> SubSeq(longMonthNames[t.M], 1, 3)
       [] std = "stdLongMonth" -> longMonthNames[t.M]
       [] std = "stdNumMonth" -> appendInt(t.M, 0)
       [] std = "stdZeroMonth" -> appendInt(t.M, 2)
       [] std = "stdWeekDay" -> SubSeq(longDayNames[Weekday(t) + 1], 1, 3)
       [] std = "stdLongWeekDay" -> longDayNames[Weekday(t) + 1]
       [] std = "stdDay" -> appendInt(t.D, 0)
       [] std = "stdUnderDay" -> pad(appendInt(t.D, 0), 2)
       [] std = "stdZeroDay" -> appendInt(t.D, 2)
       [] std = "stdUnderYearDay" -> pad(appendInt(YearDay(t), 0), 3)
       [] std = "stdZeroYearDay" -> appendInt(YearDay(t), 3)
       [] std = "stdHour" -> appendInt(t.h, 2)
       [] std = "stdHour12" -> appendInt(hr, 0)
       [] std = "stdZeroHour12" -> appendInt(hr, 2)
       [] std = "stdMinute" -> appendInt(t.m, 0)
       [] std = "stdZeroMinute" -> appendInt(t.m, 2)
       [] std = "stdSecond" -> appendInt(t.s, 0)
       [] std = "stdZeroSecond" -> appendInt(t.s, 2)
       [] std = "stdPM" -> IF t.h >= 12 THEN <<"P", "M">> ELSE <<"A", "M">>
       [] std = "stdpm" -> IF t.h >= 12 THEN <<"p", "m">> ELSE <<"a", "m">>
       [] std = "stdTZ" ->
            IF t.zone # <<>> THEN t.zone
            ELSE appendZone(t.off, "stdNumTZ")
       [] std \in {"stdFracSecond0", "stdFracSecond9"} ->
            appendNano(t.ns, ch.digits, std = "stdFracSecond9", ch.pre)
       [] OTHER -> appendZone(t.off, std)

\* time.Time.Format(layout): the layout is read from the left; a chunk prints its
\* part of the time, any other character is copied.
RECURSIVE TimeFormat(_, _)
TimeFormat(t, layout) ==
  IF layout = <<>> THEN <<>>
  ELSE LET ch == stdChunkAt(layout) IN
       IF ch.std = "" THEN <<layout[1]>> \o TimeFormat(t, Drop(layout, 1))
       ELSE IF ch.std \in {"stdFracSecond0", "stdFracSecond9"}
            THEN appendStd(t, ch) \o TimeFormat(t, Drop(layout, ch.n))
       ELSE ch.pre \o appendStd(t, ch) \o TimeFormat(t, Drop(layout, ch.n))

\* ------------------------------------------------------------------- cells
\* Kinds of cell content: "empty" (no value), "str" (SetString), "num" (SetNumber),
\* "time" (SetTime).
\* s is the style reference (SAttr); 0 is "no SAttr".
EmptyCell == [t |-> "empty", v |-> <<>>, s |-> 0]

StrCell(txt, st) == [t |-> "str", v |-> txt, s |-> st]

\* the cell styles the workbook's style sheet defines
StyleSheet == {1, 2, 3}

\* Cell.GetString: the raw text of the cell's value
GetString(cell) ==
  CASE cell.t = "str" -> cell.v
    [] cell.t = "num" -> NumStr(cell.v)
    [] cell.t = "time" -> NumStr(cell.v.serial)
    [] OTHER -> <<>>

EmptyRow == [cells |-> <<>>, unref |-> <<>>]

\* Row.Cell(col): the cell in column col, added empty when the row does not
\* reach that column; row is the row after the call
RowCell(row, col) ==
  LET r1 == IF col <= Len(row.cells) THEN row
            ELSE [row EXCEPT !.cells =
                    [k \in 1..col |-> IF k <= Len(row.cells) THEN row.cells[k] ELSE EmptyCell]]
  IN [row |-> r1, cell |-> r1.cells[col]]

\* the row after the cell Row.Cell(col) gave is set to c
RowSetCell(row, col, c) == [RowCell(row, col).row EXCEPT !.cells[col] = c]

\* Row.AddCell: a new empty cell after the last one
RowAddCell(row) == [row EXCEPT !.cells = Append(row.cells, EmptyCell)]

\* Row.Cells(): every cell of the row as the locator sees it: its text, its
\* column, and whether Cell.Column() fails on it
Cells(row) ==
  [k \in 1..Len(row.cells) |->
     [str |-> GetString(row.cells[k]), col |-> k, err |-> FALSE]]
  \o [k \in 1..Len(row.unref) |-> [str |-> row.unref[k], col |-> 0, err |-> TRUE]]

\* Sheet.Row(num): the row numbered num, created after the last row if absent
SheetRow(rows, num) == IF num <= Len(rows) THEN rows ELSE Append(rows, EmptyRow)

\* Sheet.AddRow: a new row after the last one
SheetAddRow(rows) == Append(rows, EmptyRow)

\* ------------------------------------------------------------- reflection
\* A struct type is the sequence of its fields
\*   [Name, Exported, IsT, Kind, Tag |-> [title, sheet, format], Index].
\* A record value is the sequence of its field values, by field index.
NoTag == [title |-> <<>>, sheet |-> <<>>, format |-> <<>>]

\* findTTag: the tag of the first field of type T, else the empty tag
RECURSIVE findTTagFrom(_, _)
findTTagFrom(t, i) ==
  IF i > Len(t) THEN NoTag
  ELSE IF t[i].IsT THEN t[i].Tag
  ELSE findTTagFrom(t, i + 1)

findTTag(t) == findTTagFrom(t, 1)

\* collectExportableFields: the exported fields that are not of type T, in order
RECURSIVE collectExportableFieldsFrom(_, _)
collectExportableFieldsFrom(t, i) ==
  IF i > Len(t) THEN <<>>
  ELSE IF ~t[i].Exported \/ t[i].IsT THEN collectExportableFieldsFrom(t, i + 1)
  ELSE <<t[i]>> \o collectExportableFieldsFrom(t, i + 1)

collectExportableFields(t) == collectExportableFieldsFrom(t, 1)

\* collectTitles: the title tag of each field, else its name; and whether any
\* field carries a title tag
collectTitles(fields) ==
  [titles |-> [i \in 1..Len(fields) |->
                 IF fields[i].Tag.title # <<>> THEN fields[i].Tag.title
                 ELSE fields[i].Name],
   customizedTitle |-> \E i \in 1..Len(fields) : fields[i].Tag.title # <<>>]

\* convertToFloat64: the modelled numbers are small naturals, which float64
\* holds exactly
convertToFloat64(v) == v

\* setCellValue: the cell after the field's value is stored in it
setCellValue(cell, field, value) ==
  LET v == value[field.Index] IN
  CASE field.Kind = "time" ->
         IF field.Tag.format # <<>>
         THEN [cell EXCEPT !.t = "str", !.v = TimeFormat(v, ConvertLayout(field.Tag.format))]
         ELSE [cell EXCEPT !.t = "time", !.v = v]
    [] field.Kind = "int" -> [cell EXCEPT !.t = "num", !.v = convertToFloat64(v)]
    [] field.Kind = "string" -> [cell EXCEPT !.t = "str", !.v = v]
    [] OTHER -> cell

\* ---------------------------------------------------------------- locator
\* the zero value of templateLocation
ZeroLocation ==
  [titledRowIndex |-> 0, rowsEndIndex |-> 0, templateCells |-> <<>>, templateRows |-> <<>>]

isValid(l) == Len(l.templateCells) > 0

\* matchTitle without the test of Cell.Column()'s error
RECURSIVE matchTitleIgnoringColumnError(_, _, _)
matchTitleIgnoringColumnError(cv, titles, i) ==
  IF i > Len(titles) THEN 0
  ELSE IF ~Contains(cv.str, titles[i]) THEN matchTitleIgnoringColumnError(cv, titles, i + 1)
  ELSE i

\* the title loop of findTemplateTitledRow for one cell: the index of the first
\* title the cell's text contains, 0 if none or if the cell's column fails
RECURSIVE matchTitle(_, _, _)
matchTitle(cv, titles, i) ==
  IF i > Len(titles) THEN 0
  ELSE IF ~Contains(cv.str, titles[i]) THEN matchTitle(cv, titles, i + 1)
  ELSE IF cv.err THEN matchTitle(cv, titles, i + 1)
  ELSE i

\* the cell loop of findTemplateTitledRow for one row
RECURSIVE matchCells(_, _, _, _, _)
matchCells(cvs, fields, titles, k, acc) ==
  IF k > Len(cvs) THEN acc
  ELSE LET i == matchTitle(cvs[k], titles, 1) IN
       matchCells(cvs, fields, titles, k + 1,
                  IF i = 0 THEN acc
                  ELSE Append(acc, [cellColumn |-> cvs[k].col, structField |-> fields[i]]))

\* the row loop of findTemplateTitledRow
RECURSIVE findTitledRowFrom(_, _, _, _)
findTitledRowFrom(fields, titles, rows, rowIndex) ==
  IF rowIndex >= Len(rows) THEN [titledRowIndex |-> -1, templateCells |-> <<>>]
  ELSE LET tcs == matchCells(Cells(rows[rowIndex + 1]), fields, titles, 1, <<>>) IN
       IF Len(tcs) > 0 THEN [titledRowIndex |-> rowIndex, templateCells |-> tcs]
       ELSE findTitledRowFrom(fields, titles, rows, rowIndex + 1)

findTemplateTitledRow(fields, titles, rows) == findTitledRowFrom(fields, titles, rows, 0)

\* the loop of findTemplateRows from row index i on: the template rows, and the
\* rows of the sheet after rows[i].Cell(col) was called on each row looked at
RECURSIVE findTemplateRowsFrom(_, _, _, _)
findTemplateRowsFrom(col, rows, i, templateRows) ==
  IF i >= Len(rows) THEN [templateRows |-> templateRows, rows |-> rows]
  ELSE LET rc == RowCell(rows[i + 1], col)
           rows1 == [rows EXCEPT ![i + 1] = rc.row]
       IN IF Contains(GetString(rc.cell), TemplateMarker)
          THEN findTemplateRowsFrom(col, rows1, i + 1, Append(templateRows, i))
          ELSE IF Len(templateRows) = 0
               THEN [templateRows |-> Append(templateRows, i), rows |-> rows1]
          ELSE findTemplateRowsFrom(col, rows1, i + 1, templateRows)

findTemplateRows(titledRowIndex, templateCells, rows) ==
  IF titledRowIndex < 0 THEN [templateRows |-> <<>>, rows |-> rows]
  ELSE findTemplateRowsFrom(templateCells[1].cellColumn, rows, titledRowIndex + 1, <<>>)

\* locateTitles on the rows of the current sheet: the location, and the rows of
\* the sheet after the scan
locateTitles(hasTpl, fields, titles, rows) ==
  IF ~hasTpl THEN [location |-> ZeroLocation, rows |-> rows]
  ELSE LET r == findTemplateTitledRow(fields, titles, rows)
           tr == findTemplateRows(r.titledRowIndex, r.templateCells, rows)
       IN [location |-> [titledRowIndex |-> r.titledRowIndex,
                         templateRows |-> tr.templateRows,
                         templateCells |-> r.templateCells,
                         rowsEndIndex |-> Len(rows)],
           rows |-> tr.rows]

\* ------------------------------------------------------------------ writer
\* createSheet: the workbook after the sheet for the type tag is chosen (and
\* added or renamed), and the 1-based position of that sheet in it
sheetNamePrefix == <<"S", "h", "e", "e", "t", " ">>

\* Workbook.AddSheet: a new empty sheet named after its position
AddSheet(wb) ==
  Append(wb, [name |-> sheetNamePrefix \o NumStr(Len(wb) + 1), rows |-> <<>>])

createSheet(wb, ttag, hasTpl) ==
  LET sheetName == ttag.sheet
      named == {k \in 1..Len(wb) : wb[k].name = sheetName}
      wb1 == IF hasTpl /\ Len(wb) > 0 THEN wb ELSE AddSheet(wb)
      at == IF hasTpl /\ Len(wb) > 0 THEN 1 ELSE Len(wb1)
  IN IF hasTpl /\ named # {}
     THEN [wb |-> wb, at |-> CHOOSE k \in named : \A j \in named : k <= j]
     ELSE IF sheetName # <<>> /\ ~Contains(wb1[at].name, sheetName)
          THEN [wb |-> [wb1 EXCEPT ![at].name = sheetName], at |-> at]
          ELSE [wb |-> wb1, at |-> at]

\* writeTitles: a new last row with one text cell per field
writeTitles(rows, fields, titles) ==
  Append(rows, [cells |-> [i \in 1..Len(fields) |-> StrCell(titles[i], 0)],
                unref |-> <<>>])

\* the field loop of writeRow: one added cell per field, from field k on
RECURSIVE writeRowCells(_, _, _, _)
writeRowCells(row, fields, value, k) ==
  IF k > Len(fields) THEN row
  ELSE LET r1 == RowAddCell(row)
           c == Len(r1.cells)
       IN writeRowCells(RowSetCell(r1, c, setCellValue(r1.cells[c], fields[k], value)),
                        fields, value, k + 1)

\* writeRow.  isPtr: the reflect.Value handed in is a pointer, on which
\* FieldByIndex panics; the row and its first cell are added before that.
writeRow(rows, fields, value, isPtr) ==
  LET r0 == SheetAddRow(rows)
      n == Len(r0)
  IN IF Len(fields) > 0 /\ isPtr
     THEN [rows |-> [r0 EXCEPT ![n] = RowAddCell(@)], panicked |-> TRUE]
     ELSE [rows |-> [r0 EXCEPT ![n] = writeRowCells(@, fields, value, 1)],
           panicked |-> FALSE]

\* the number of the row writeTemplateRow writes
rowNum(l, written) == l.titledRowIndex + 2 + written

\* styleIndex off by one: rowsWritten taken as the index of the record
styleIndexOffByOne(l, written) == written % Len(l.templateRows)

\* the index into templateRows of the row copyRowStyle copies from
styleIndex(l, written) == (written - 1) % Len(l.templateRows)

\* the cell loop of copyRowStyle, from template cell k on: num is the number of
\* the row written, templateRow that of the template row; templateRow.Cell and
\* row.Cell each add the cell their row lacks
RECURSIVE copyCellStyles(_, _, _, _, _)
copyCellStyles(rows, num, templateRow, tcs, k) ==
  IF k > Len(tcs) THEN rows
  ELSE LET col == tcs[k].cellColumn
           tc == RowCell(rows[templateRow], col)
           rows1 == [rows EXCEPT ![templateRow] = tc.row]
           sattr == tc.cell.s
       IN IF sattr # 0 /\ sattr \in StyleSheet
          THEN copyCellStyles(
                 [rows1 EXCEPT ![num] =
                    RowSetCell(@, col, [RowCell(@, col).cell EXCEPT !.s = sattr])],
                 num, templateRow, tcs, k + 1)
          ELSE copyCellStyles(rows1, num, templateRow, tcs, k + 1)

\* copyRowStyle onto the row numbered num; written is x.rowsWritten
copyRowStyle(l, rows, num, written) ==
  IF Len(l.templateRows) = 0 \/ written < Len(l.templateRows) THEN rows
  ELSE copyCellStyles(rows, num, l.templateRows[styleIndex(l, written) + 1] + 1,
                      l.templateCells, 1)

\* the cell loop of writeTemplateRow, from template cell k on
RECURSIVE writeTemplateCells(_, _, _, _)
writeTemplateCells(row, tcs, value, k) ==
  IF k > Len(tcs) THEN row
  ELSE writeTemplateCells(
         RowSetCell(row, tcs[k].cellColumn,
                    setCellValue(RowCell(row, tcs[k].cellColumn).cell, tcs[k].structField,
                                 value)),
         tcs, value, k + 1)

\* writeTemplateRow: the rows and x.rowsWritten after it.  isPtr as in writeRow:
\* the counter is incremented, the row fetched (or created) and the cell of its
\* first template column fetched (or added) before the panic.
writeTemplateRow(l, rows, written, value, isPtr) ==
  LET num == rowNum(l, written)
      written1 == written + 1
      rows1 == SheetRow(rows, num)
  IN IF Len(l.templateCells) > 0 /\ isPtr
     THEN [rows |-> [rows1 EXCEPT ![num] = RowCell(@, l.templateCells[1].cellColumn).row],
           rowsWritten |-> written1, panicked |-> TRUE]
     ELSE [rows |-> copyRowStyle(l,
                      [rows1 EXCEPT ![num] = writeTemplateCells(@, l.templateCells, value, 1)],
                      num, written1),
           rowsWritten |-> written1, panicked |-> FALSE]

\* removeTempleRows that leaves the sheet alone once every template row is used
removeTempleRowsUnusedOnly(l, rows, written) ==
  IF Len(l.templateRows) = 0 \/ written >= Len(l.templateRows) THEN rows
  ELSE LET endIndex == l.titledRowIndex + 1 + written
       IN IF endIndex < Len(rows) THEN SubSeq(rows, 1, endIndex) ELSE rows

\* removeTempleRows
removeTempleRows(l, rows, written) ==
  IF Len(l.templateRows) = 0 THEN rows
  ELSE LET endIndex == l.titledRowIndex + 1 + written
       IN IF endIndex < Len(rows) THEN SubSeq(rows, 1, endIndex) ELSE rows

\* ------------------------------------------------------------------ inputs
Fld(name, kind, title, index) ==
  [Name |-> name, Exported |-> TRUE, IsT |-> FALSE, Kind |-> kind,
   Tag |-> [NoTag EXCEPT !.title = title], Index |-> index]

\* struct { A int `title:"T"`; B string; c int; D time.Time `format:"yyyy-MM-dd"` }
TyTitled ==
  << Fld(<<"A">>, "int", <<"T">>, 1), Fld(<<"B">>, "string", <<>>, 2),
     [Fld(<<"c">>, "int", <<>>, 3) EXCEPT !.Exported = FALSE],
     [Fld(<<"D">>, "time", <<>>, 4) EXCEPT
        !.Tag.format = <<"y", "y", "y", "y", "-", "M", "M", "-", "d", "d">>] >>

\* struct { A int; B string; C bool; D time.Time }
TyPlain ==
  << Fld(<<"A">>, "int", <<>>, 1), Fld(<<"B">>, "string", <<>>, 2),
     Fld(<<"C">>, "bool", <<>>, 3), Fld(<<"D">>, "time", <<>>, 4) >>

\* struct { T T `title:"x" sheet:"S"`; A int; B string }
TyTagged ==
  << [Name |-> <<"T">>, Exported |-> TRUE, IsT |-> TRUE, Kind |-> "T",
      Tag |-> [NoTag EXCEPT !.title = <<"x">>, !.sheet = <<"S">>], Index |-> 1],
     Fld(<<"A">>, "int", <<>>, 2), Fld(<<"B">>, "string", <<>>, 3) >>

Types == {TyTitled, TyPlain, TyTagged}

\* the k-th record of the input stream of type ty: its numbers are k, its
\* strings "r<k>", except that the second record's strings are "template", its
\* times the k-th of April 2020
RecordOf(ty, k) ==
  [i \in 1..Len(ty) |->
     CASE ty[i].Kind = "int" -> k
       [] ty[i].Kind = "string" -> IF k = 2 THEN TemplateMarker ELSE <<"r">> \o NumStr(k)
       [] ty[i].Kind = "time" ->
            [Y |-> 2020, M |-> 4, D |-> k, h |-> 0, m |-> 0, s |-> 0, ns |-> 0,
             zone |-> <<"U", "T", "C">>, off |-> 0, serial |-> 43921 + k]
       [] OTHER -> 0]

\* The arguments Write is called with: a struct ("struct"), a pointer to one
\* ("ptr"), a slice of structs ("slice") or a slice of pointers ("sliceptr").
Bean(ty, f, n) == [type |-> ty, form |-> f, recs |-> [j \in 1..n |-> RecordOf(ty, j)]]

\* A slice of pointers fails on its first element: one element shows it.
Beans ==
  { Bean(ty, f, 1) : ty \in Types, f \in {"struct", "ptr"} }
  \union { Bean(ty, "slice", n) : ty \in Types, n \in 0..MaxRecords }
  \union { Bean(ty, "sliceptr", n) : ty \in Types, n \in 0..1 }

isSlice(b) == b.form \in {"slice", "sliceptr"}

\* whether the reflect.Value of one record of the argument is a pointer
isPtrValue(b) == b.form \in {"ptr", "sliceptr"}

\* the rows of the template sheets a behaviour may start from
RowTitle == [cells |-> <<StrCell(<<"T">>, 1), StrCell(<<"B">>, 0)>>, unref |-> <<>>]
RowMarkA == [cells |-> <<StrCell(TemplateMarker, 1), StrCell(TemplateMarker, 2)>>, unref |-> <<>>]
RowMarkB == [cells |-> <<StrCell(TemplateMarker, 3)>>, unref |-> <<>>]

RowShapes == {RowTitle, RowMarkA, RowMarkB}

SeqsUpTo(S, n) == UNION { [1..k -> S] : k \in 0..n }

\* the workbooks New() can leave: a fresh one (no template, or a template that
\* failed to open), or a template of one sheet
TemplateWorkbooks ==
  { <<[name |-> <<"S">>, rows |-> rs]>> : rs \in SeqsUpTo(RowShapes, MaxRows) }

\* -------------------------------------------------------------------- state
VARIABLES
  option,        \* [TemplateFile]: "" or the template's path
  workbook,      \* the sheets, each [name, rows]
  currentSheet,  \* x.currentSheet: the position of the active sheet, 0 before any
  rowsWritten,   \* x.rowsWritten
  pc,            \* where Write stands: "idle", "template", "plain", "done", "panic"
  beans,         \* the argument of the running call
  next,          \* the loop index i of Write
  fields,        \* the exportable fields of the running call
  location,      \* the templateLocation of the running call
  rows0,         \* the rows of the active sheet when the running call looked at them
  calls          \* Write calls made

vars == <<option, workbook, currentSheet, rowsWritten, pc, beans, next, fields,
          location, rows0, calls>>

hasTemplate == option.TemplateFile # ""

NoBeans == [type |-> <<>>, form |-> "slice", recs |-> <<>>]

\* the rows of the active sheet
Rows == workbook[currentSheet].rows

\* the number of records of the running call
NumRecords == IF isSlice(beans) THEN Len(beans.recs) ELSE 1

\* New(): the template is opened, and a fresh workbook stands in for one that
\* does not open
Init ==
  /\ option \in {[TemplateFile |-> ""], [TemplateFile |-> "template.xlsx"]}
  /\ workbook \in (IF hasTemplate THEN TemplateWorkbooks \union {<<>>} ELSE {<<>>})
  /\ currentSheet = 0
  /\ rowsWritten = 0
  /\ pc = "idle"
  /\ beans = NoBeans
  /\ next = 0
  /\ fields = <<>>
  /\ location = ZeroLocation
  /\ rows0 = <<>>
  /\ calls = 0

\* Write without the reset of x.rowsWritten
resetRowsWrittenMissing(l, written) == written

\* x.rowsWritten after Write's test of the location
resetRowsWritten(l, written) == IF isValid(l) THEN 0 ELSE written

\* writeTitle without the type-level title tag
writeTitleFieldsOnly(customizedTitle, l, ttag) == customizedTitle /\ ~isValid(l)

\* whether Write writes a title row
writeTitle(customizedTitle, l, ttag) ==
  (customizedTitle /\ ~isValid(l)) \/ ttag.title # <<>>

\* Write, up to its loops, called with an argument whose records are of type ty:
\* the sheet, the fields and titles, the location, the title row
WriteStart(ty) ==
  /\ pc = "idle"
  /\ calls < MaxCalls
  /\ LET ttag == findTTag(ty)
         cs == createSheet(workbook, ttag, hasTemplate)
         fs == collectExportableFields(ty)
         ct == collectTitles(fs)
         rs == cs.wb[cs.at].rows
         lt == locateTitles(hasTemplate, fs, ct.titles, rs)
         l == lt.location
     IN /\ workbook' =
             [cs.wb EXCEPT ![cs.at].rows =
                IF writeTitle(ct.customizedTitle, l, ttag)
                THEN writeTitles(lt.rows, fs, ct.titles) ELSE lt.rows]
        /\ currentSheet' = cs.at
        /\ fields' = fs
        /\ location' = l
        /\ rows0' = rs
        /\ rowsWritten' = resetRowsWritten(l, rowsWritten)
        /\ pc' = IF isValid(l) THEN "template" ELSE "plain"
  /\ beans' \in {b \in Beans : b.type = ty}
  /\ next' = 0
  /\ calls' = calls + 1
  /\ UNCHANGED option

\* one pass of the template loop of Write: writeTemplateRow on record next
WriteTemplateRow ==
  /\ pc = "template"
  /\ next < NumRecords
  /\ LET r == writeTemplateRow(location, Rows, rowsWritten, beans.recs[next + 1],
                               isPtrValue(beans))
     IN /\ workbook' = [workbook EXCEPT ![currentSheet].rows = r.rows]
        /\ rowsWritten' = r.rowsWritten
        /\ pc' = IF r.panicked THEN "panic" ELSE pc
  /\ next' = next + 1
  /\ UNCHANGED <<option, currentSheet, beans, fields, location, rows0, calls>>

\* the end of the template branch of Write: removeTempleRows, and the return
RemoveTempleRows ==
  /\ pc = "template"
  /\ next = NumRecords
  /\ workbook' = [workbook EXCEPT ![currentSheet].rows =
                    removeTempleRows(location, Rows, rowsWritten)]
  /\ pc' = "done"
  /\ UNCHANGED <<option, currentSheet, rowsWritten, beans, next, fields, location,
                 rows0, calls>>

\* one pass of the plain loop of Write: writeRow on record next
WriteRow ==
  /\ pc = "plain"
  /\ next < NumRecords
  /\ LET r == writeRow(Rows, fields, beans.recs[next + 1], isPtrValue(beans))
     IN /\ workbook' = [workbook EXCEPT ![currentSheet].rows = r.rows]
        /\ pc' = IF r.panicked THEN "panic" ELSE pc
  /\ next' = next + 1
  /\ UNCHANGED <<option, currentSheet, rowsWritten, beans, fields, location, rows0, calls>>

\* the end of the plain loop of Write
WriteRowsEnd ==
  /\ pc = "plain"
  /\ next = NumRecords
  /\ pc' = "done"
  /\ UNCHANGED <<option, workbook, currentSheet, rowsWritten, beans, next, fields,
                 location, rows0, calls>>

\* Write has returned: its locals are gone
Return ==
  /\ pc = "done"
  /\ pc' = "idle"
  /\ beans' = NoBeans
  /\ next' = 0
  /\ fields' = <<>>
  /\ location' = ZeroLocation
  /\ rows0' = <<>>
  /\ UNCHANGED <<option, workbook, currentSheet, rowsWritten, calls>>

Next ==
  \/ \E ty \in Types : WriteStart(ty)
  \/ WriteTemplateRow
  \/ RemoveTempleRows
  \/ WriteRow
  \/ WriteRowsEnd
  \/ Return

Spec == Init /\ [][Next]_vars

\* --------------------------------------------------- the locator on its own
\* The locator applied to sheets of up to MaxLocRows rows.  The state is that of
\* a Write call standing at its call of locateTitles (pc = "locate"): the sheet
\* is chosen, the fields are collected, rows0 holds the rows it is about to scan.
LocText == <<"T", "(", "x", ")">>

LocRowOther  == [cells |-> <<StrCell(<<"z">>, 0)>>, unref |-> <<>>]
LocRowTitle  == [cells |-> <<StrCell(<<"T">>, 1), StrCell(<<"B">>, 1)>>, unref |-> <<>>]
LocRowTwice  == [cells |-> <<StrCell(<<"T">>, 1), StrCell(LocText, 0)>>, unref |-> <<>>]
LocRowLate   == [cells |-> <<StrCell(<<"z">>, 0), StrCell(LocText, 0)>>, unref |-> <<>>]
LocRowBoth   == [cells |-> <<StrCell(<<"B", "T">>, 0), EmptyCell>>, unref |-> <<>>]
LocRowMark1  == [cells |-> <<StrCell(TemplateMarker, 2), StrCell(<<"z">>, 0)>>, unref |-> <<>>]
LocRowMark2  == [cells |-> <<StrCell(<<"z">>, 0), StrCell(<<"x">> \o TemplateMarker, 3)>>,
                 unref |-> <<>>]
LocRowUnref  == [cells |-> <<StrCell(<<"z">>, 0)>>, unref |-> <<LocText>>]

LocRowShapes ==
  {LocRowOther, LocRowTitle, LocRowTwice, LocRowLate, LocRowBoth, LocRowMark1,
   LocRowMark2, LocRowUnref}

LocInit ==
  /\ option \in {[TemplateFile |-> ""], [TemplateFile |-> "template.xlsx"]}
  /\ \E ty \in Types, rs \in SeqsUpTo(LocRowShapes, MaxLocRows) :
       LET wb == IF hasTemplate THEN <<[name |-> <<"S">>, rows |-> rs]>> ELSE <<>>
           cs == createSheet(wb, findTTag(ty), hasTemplate)
       IN /\ workbook = cs.wb
          /\ currentSheet = cs.at
          /\ rows0 = cs.wb[cs.at].rows
          /\ beans = Bean(ty, "slice", 0)
          /\ fields = collectExportableFields(ty)
  /\ rowsWritten = 0
  /\ pc = "locate"
  /\ next = 0
  /\ location = ZeroLocation
  /\ calls = 1

\* Write's call of locateTitles
Locate ==
  /\ pc = "locate"
  /\ LET lt == locateTitles(hasTemplate, fields, collectTitles(fields).titles, Rows)
     IN /\ location' = lt.location
        /\ workbook' = [workbook EXCEPT ![currentSheet].rows = lt.rows]
  /\ pc' = "located"
  /\ UNCHANGED <<option, currentSheet, rowsWritten, beans, next, fields, rows0, calls>>

LocNext == Locate

LocSpec == LocInit /\ [][LocNext]_vars

\* ------------------------------------------------------------- properties
\* the resolved titles of the running call
Titles == collectTitles(fields).titles

TitleOf(f) == IF f.Tag.title # <<>> THEN f.Tag.title ELSE f.Name

Min(S) == CHOOSE x \in S : \A y \in S : x <= y

\* what the cell in column col of the row holds, an absent cell holding nothing
CellAt(row, col) == RowCell(row, col).cell

\* the two rows hold the same in every column
SameContent(r1, r2) ==
  /\ r1.unref = r2.unref
  /\ \A c \in 1..(Len(r1.cells) + Len(r2.cells)) : CellAt(r1, c) = CellAt(r2, c)

\* a cell, as Cells shows it, whose text contains a resolved title
CellHasTitle(cv) == \E i \in 1..Len(Titles) : Contains(cv.str, Titles[i])

RowHasTitle(row) == \E k \in 1..Len(Cells(row)) : CellHasTitle(Cells(row)[k])

RowHasResolvableTitle(row) ==
  \E k \in 1..Len(Cells(row)) : ~Cells(row)[k].err /\ CellHasTitle(Cells(row)[k])

\* the columns of the template cells of l
TemplateColumns(l) == {l.templateCells[k].cellColumn : k \in 1..Len(l.templateCells)}

\* The location is the one the claim describes, where Hit says which rows count
\* as holding a title: the first such row is the title row and every template
\* cell is a cell of that row that holds its field's title, one per such cell;
\* no such row gives -1 and no template cells.
LocatesFirst(Hit(_)) ==
  LET hits == {i \in 0..(Len(rows0) - 1) : Hit(rows0[i + 1])}
      l == location
  IN IF hits = {}
     THEN l.titledRowIndex = -1 /\ l.templateCells = <<>>
     ELSE /\ l.titledRowIndex = Min(hits)
          /\ l.templateCells # <<>>
          /\ LET row == rows0[Min(hits) + 1] IN
             /\ \A k \in 1..Len(l.templateCells) :
                  /\ l.templateCells[k].cellColumn \in 1..Len(row.cells)
                  /\ Contains(GetString(row.cells[l.templateCells[k].cellColumn]),
                              TitleOf(l.templateCells[k].structField))
             /\ \A j, k \in 1..Len(l.templateCells) :
                  j < k => l.templateCells[j].cellColumn < l.templateCells[k].cellColumn
             /\ TemplateColumns(l) =
                  {c \in 1..Len(row.cells) : CellHasTitle(Cells(row)[c])}

\* C6, as stated: the title row is the first row with a cell whose text contains
\* a resolved title, the template cells all come from that row, and
\* titledRowIndex is -1 with no template cells exactly when no row has such a cell.
C6_Original == pc = "located" => LocatesFirst(RowHasTitle)

\* C6, amended: with a template configured, the title row is the first row with
\* a cell whose column resolves and whose text contains a resolved title, the
\* template cells are exactly the cells of that row with such a text, in column
\* order, and titledRowIndex is -1 with no template cells exactly when no row has
\* such a cell; with no template configured nothing is scanned and the location
\* is the zero value, titledRowIndex 0 with no template cells.
C6_FirstResolvableTitleRow ==
  pc = "located" =>
    IF hasTemplate THEN LocatesFirst(RowHasResolvableTitle) ELSE location = ZeroLocation

\* C6's case: the title row is the third row, it matches one title only and is
\* preceded by a row whose only title text sits in a cell without a column,
\* and a row below it matches more titles.
C6_Witness ==
  /\ pc = "located"
  /\ location.titledRowIndex = 2
  /\ Len(location.templateCells) = 1
  /\ \E i \in 1..2 : RowHasTitle(rows0[i]) /\ ~RowHasResolvableTitle(rows0[i])
  /\ Len(rows0) = 4 /\ rows0[4] = LocRowTitle /\ Len(fields) = 3

\* whether the row at 0-based index i holds the marker in column col
HasMarker(i, col) ==
  i < Len(rows0) /\ Contains(GetString(CellAt(rows0[i + 1], col)), TemplateMarker)

\* C7, as stated: with a title row found, templateRows is the maximal run of
\* consecutive marker rows right below the title row, or the single row below the
\* title row when that row lacks the marker: never a row that a non-marker row
\* separates from the run.
C7_Original ==
  (pc = "located" /\ isValid(location)) =>
    LET t == location.titledRowIndex
        col == location.templateCells[1].cellColumn
        run == {n \in 0..Len(rows0) : \A i \in (t + 1)..(t + n) : HasMarker(i, col)}
        longest == CHOOSE n \in run : \A m \in run : m <= n
    IN location.templateRows =
         IF t + 1 >= Len(rows0) THEN <<>>
         ELSE IF ~HasMarker(t + 1, col) THEN <<t + 1>>
         ELSE [k \in 1..longest |-> t + k]

\* C8, as stated: no field appears twice among the template cells, so that they
\* are no more than the exportable fields.
C8_Original ==
  pc = "located" =>
    /\ \A j, k \in 1..Len(location.templateCells) :
         j # k => location.templateCells[j].structField # location.templateCells[k].structField
    /\ Len(location.templateCells) <= Len(fields)

\* the running call is a template-mode call that has returned
TemplateDone == pc = "done" /\ isValid(location)

\* the running call is a no-template call that has returned
PlainDone == pc = "done" /\ ~isValid(location)

\* a step of the template loop that wrote its record
TemplateRowStep == pc = "template" /\ pc' = "template" /\ next' = next + 1

\* the step that runs removeTempleRows
FinalizeStep == pc = "template" /\ pc' = "done"

\* C1, as stated: when a template-mode Write of N records returns, the active
\* sheet has exactly titledRowIndex + 1 + N rows, for N = 0 too.
C1_Original ==
  TemplateDone => Len(Rows) = location.titledRowIndex + 1 + NumRecords

\* C2, as stated: removeTempleRows removes no row when the records written are
\* at least as many as the template rows, and the rows it removes are all
\* template rows.
C2_Original ==
  [][FinalizeStep =>
       /\ rowsWritten >= Len(location.templateRows) => Rows' = Rows
       /\ \A i \in 0..(Len(Rows) - 1) :
            i >= Len(Rows') => \E k \in 1..Len(location.templateRows) :
                                  location.templateRows[k] = i]_vars

\* C2, amended: removeTempleRows removes rows exactly when there are template
\* rows and the sheet has more than titledRowIndex + 1 + rowsWritten rows, and
\* then it removes every row from that index on, template row or not, and no
\* other; so having written as many records as there are template rows keeps
\* back only the rows up to that index.
C2_RemovesTrailingRows ==
  [][FinalizeStep =>
       LET endIndex == location.titledRowIndex + 1 + rowsWritten IN
       /\ Rows' = SubSeq(Rows, 1, Len(Rows'))
       /\ Len(Rows') = IF Len(location.templateRows) > 0 /\ endIndex < Len(Rows)
                       THEN endIndex ELSE Len(Rows)]_vars

\* C2's case: a call that wrote as many records as there were template rows has
\* returned, and a row that was below the template rows is gone.
C2_Witness ==
  /\ TemplateDone
  /\ Len(location.templateRows) = 1
  /\ rowsWritten = 1
  /\ Len(rows0) = 3 /\ Len(Rows) = 2
  /\ location.titledRowIndex = 0

\* C3: in a template-mode Write with K >= 1 template rows, the row the j-th
\* record is written to gets no style when j < K, and when j >= K gets, in each
\* template column, the style of the template row at index (j - 1) mod K, a
\* column whose template cell has no style being skipped; every other style of
\* the row stays.
C3_StyleCycling ==
  [][TemplateRowStep =>
       LET l == location
           K == Len(l.templateRows)
           j == rowsWritten'
           r == l.titledRowIndex + 1 + j
           old == IF r <= Len(Rows) THEN Rows[r] ELSE EmptyRow
           new == Rows'[r]
           ex == Rows[l.templateRows[((j - 1) % K) + 1] + 1]
       IN K >= 1 =>
            \A c \in (1..Len(new.cells)) \union TemplateColumns(l) :
              CellAt(new, c).s =
                IF j >= K /\ c \in TemplateColumns(l) /\ CellAt(ex, c).s # 0
                THEN CellAt(ex, c).s
                ELSE CellAt(old, c).s]_vars

\* C3's case: two template rows, the fourth record written; its row is a new
\* one and carries in the first column the style of the second template row and no
\* style in the second column, where the second template row has none.
C3_Witness ==
  /\ pc = "template"
  /\ Len(location.templateRows) = 2
  /\ rowsWritten = 4
  /\ Len(location.templateCells) = 2
  /\ LET r == location.titledRowIndex + 5
         ex == Rows[location.templateRows[2] + 1]
         other == Rows[location.templateRows[1] + 1]
     IN /\ r > Len(rows0)
        /\ CellAt(Rows[r], 1).s = CellAt(ex, 1).s
        /\ CellAt(ex, 1).s # 0
        /\ CellAt(ex, 1).s # CellAt(other, 1).s
        /\ CellAt(ex, 2).s = 0
        /\ CellAt(other, 2).s # 0
        /\ CellAt(Rows[r], 2).s = 0

\* C4, as stated: Write takes a struct, a pointer to a struct, or a slice of
\* structs or of pointers to structs, and in none of these cases does the call
\* fail.
C4_Original == pc # "panic"

\* the cell a fresh cell becomes when value v of a field of kind int or string
\* is stored in it
Holds(cell, field, rec) ==
  CASE field.Kind = "int" -> cell.t = "num" /\ cell.v = rec[field.Index]
    [] field.Kind = "string" -> cell.t = "str" /\ cell.v = rec[field.Index]
    [] OTHER -> TRUE

\* C5: a no-template Write of N records appends exactly h + N rows, h being 1
\* if a field carries a title tag or the type-level title tag is not empty and 0
\* otherwise; with h = 1 the first appended row holds the resolved titles, one
\* cell per field in declaration order; the rows after it hold the records in
\* input order, one cell per field in declaration order; with h = 0 the first
\* appended row is record 0.
C5_PlainRows ==
  PlainDone =>
    LET h == IF (\E i \in 1..Len(fields) : fields[i].Tag.title # <<>>)
                  \/ findTTag(beans.type).title # <<>> THEN 1 ELSE 0
        base == Len(rows0)
    IN /\ Len(Rows) = base + h + NumRecords
       /\ SubSeq(Rows, 1, base) = rows0
       /\ h = 1 =>
            /\ Len(Rows[base + 1].cells) = Len(fields)
            /\ \A k \in 1..Len(fields) :
                 /\ Rows[base + 1].cells[k].t = "str"
                 /\ Rows[base + 1].cells[k].v = TitleOf(fields[k])
       /\ \A i \in 1..NumRecords :
            /\ Len(Rows[base + h + i].cells) = Len(fields)
            /\ \A k \in 1..Len(fields) :
                 Holds(Rows[base + h + i].cells[k], fields[k], beans.recs[i])

\* C5's case: a no-template Write of three records of a type whose only title is
\* the type-level one has returned, after an earlier Write of a type with no
\* title at all.
C5_Witness ==
  /\ PlainDone
  /\ ~hasTemplate
  /\ NumRecords = 3
  /\ beans.type = TyTagged
  /\ Len(workbook) = 2
  /\ Len(workbook[1].rows) = 2
  /\ workbook[1].rows[1].cells[1].t = "num"

\* C9: in every template-mode call, whatever the calls before it, rowsWritten
\* counts the records of the call handled so far (0 when its first record is
\* written, one more after each record); record i is written to the row numbered
\* titledRowIndex + 2 + i, titledRowIndex being that of the call's own scan of the
\* sheet; so record 0 goes to the row right below the title row, which is the
\* first template row when there is one, and the records fill consecutive rows in
\* input order.
C9_RowsWrittenAndPlacement ==
  /\ [](pc = "template" =>
          /\ rowsWritten = next
          /\ next = 0 =>
               location.titledRowIndex =
                 findTemplateTitledRow(fields, Titles, rows0).titledRowIndex
          /\ Len(location.templateRows) > 0 =>
               location.templateRows[1] = location.titledRowIndex + 1)
  /\ [][TemplateRowStep =>
          LET r == location.titledRowIndex + 2 + next IN
          /\ rowsWritten' = rowsWritten + 1
          /\ Len(Rows') >= r
          /\ \A k \in 1..Len(location.templateCells) :
               Holds(CellAt(Rows'[r], location.templateCells[k].cellColumn),
                     location.templateCells[k].structField, beans.recs[next + 1])
          /\ \A q \in 1..Len(Rows) :
               q # r => (Rows'[q] = Rows[q] \/ SameContent(Rows'[q], Rows[q]))
          /\ Len(Rows') = IF r > Len(Rows) THEN Len(Rows) + 1 ELSE Len(Rows)]_vars

\* C9's case: the second call on the instance is a template-mode call that has
\* written two of its records, over rows an earlier template-mode call of three
\* records had written.
C9_Witness ==
  /\ calls = 2
  /\ pc = "template"
  /\ next = 2
  /\ rowsWritten = 2
  /\ Len(rows0) = location.titledRowIndex + 4
  /\ \A q \in (location.titledRowIndex + 2)..Len(rows0) : CellAt(rows0[q], 1).t = "num"
  /\ CellAt(Rows[location.titledRowIndex + 3], 1).v = 2

\* C10, as stated: a template-mode Write leaves the rows up to and including
\* the title row as they were, and in the rows it writes changes the content of
\* template columns only: the cells of the other columns keep their content.
C10_Original ==
  TemplateDone =>
    /\ \A q \in 1..(location.titledRowIndex + 1) : Rows[q] = rows0[q]
    /\ \A i \in 0..(NumRecords - 1) :
         LET q == location.titledRowIndex + 2 + i
             was == IF q <= Len(rows0) THEN rows0[q] ELSE EmptyRow
         IN q <= Len(Rows) =>
              \A c \in (1..Len(Rows[q].cells)) \ TemplateColumns(location) :
                /\ CellAt(Rows[q], c).t = CellAt(was, c).t
                /\ CellAt(Rows[q], c).v = CellAt(was, c).v

====
